---- MODULE Spec2Model ----
(***************************************************************************)
(* Conway's Game of Life browser demo.                                     *)
(*                                                                         *)
(*   src/unnamed/part_000       gameOfLife(grid), countLiveNeighbors(grid, *)
(*                              row, col) and the page's event handlers    *)
(*   src/evaluate/evaluate.js   the second copy: computeNextGeneration()   *)
(*                              and countLiveNeighbors(row, col) read the  *)
(*                              page's global grid                         *)
(*                                                                         *)
(* A JavaScript grid is an array of row arrays.  Rows are objects: they    *)
(* live in a heap (reference -> array of cells) and a grid is a sequence   *)
(* of row references, so that copying, aliasing and in-place writes are    *)
(* what the code makes them.  JavaScript index i is TLA+ index i + 1.      *)
(***************************************************************************)
EXTENDS Integers, Sequences, FiniteSets, TLC

\* ------------------------------------------------------------------------
\* Bounds of the model
\* ------------------------------------------------------------------------
\* gameOfLife / countLiveNeighbors are applied to the documented example grids
\* and to every rectangular grid with at most MaxLive live cells
MaxLive == 1
\* of 1..numRows+MaxExtraDim rows and 1..numCols+MaxExtraDim columns
MaxExtraDim == 1
\* cell clicks per run of the page
MaxClicks == 1
\* the clicks land on the first MaxClickCells cells (in row-major order)
MaxClickCells == 3
\* generation steps (Next clicks and timer ticks) per run of the page
MaxGens == 3
\* setInterval calls per run of a page
MaxTimers == 2

\* ------------------------------------------------------------------------
\* Program constants
\* ------------------------------------------------------------------------
\* a read of an index the array does not have yields undefined
Undefined == -1

\* let grid = [...] : the literal initial configuration
initialGrid ==
  << <<0, 1, 0, 0, 1>>,
     <<0, 1, 0, 0, 1>>,
     <<0, 1, 0, 0, 1>>,
     <<0, 0, 0, 0, 0>>,
     <<1, 1, 1, 0, 0>> >>

\* const numRows = grid.length, evaluated once, on the initial grid
numRows == Len(initialGrid)

\* const numCols = grid[0].length, evaluated once, on the initial grid
numCols == Len(initialGrid[1])

\* direct calls pass grids of 1..MaxRows rows and 1..MaxCols columns: fewer
\* rows or columns than the module's grid, as many, and more
MaxRows == numRows + MaxExtraDim

MaxCols == numCols + MaxExtraDim

\* the eight neighbour offsets, in the order forEach visits them
directions ==
  << <<-1, -1>>, <<-1, 0>>, <<-1, 1>>,
     <<0, -1>>,             <<0, 1>>,
     <<1, -1>>,  <<1, 0>>,  <<1, 1>> >>

\* ------------------------------------------------------------------------
\* JavaScript arrays and the heap of row objects
\* ------------------------------------------------------------------------
\* arr[i] : undefined outside the array
Get(arr, i) == IF i >= 0 /\ i < Len(arr) THEN arr[i + 1] ELSE Undefined

\* arr[i] = v : replaces the element, or grows the array (holes read undefined)
SetIndex(arr, i, v) ==
  IF i < Len(arr) THEN [arr EXCEPT ![i + 1] = v]
  ELSE arr \o [k \in 1..(i - Len(arr)) |-> Undefined] \o <<v>>

\* a reference no live object has (the least one, so that states are canonical)
NewRef(h) ==
  CHOOSE r \in 1..(Cardinality(DOMAIN h) + 1) :
    r \notin DOMAIN h /\ \A s \in 1..(r - 1) : s \in DOMAIN h

\* a new array object holding cells
AllocRow(h, cells) ==
  LET r == NewRef(h) IN [heap |-> h @@ (r :> cells), ref |-> r]

\* an array literal of row literals: every row is a new object
RECURSIVE AllocGrid(_, _, _)
AllocGrid(h, rows, acc) ==
  IF rows = << >> THEN [heap |-> h, grid |-> acc]
  ELSE LET a == AllocRow(h, Head(rows))
       IN AllocGrid(a.heap, Tail(rows), Append(acc, a.ref))

\* the contents of a grid: the rows its references point at
GridValue(h, g) == [i \in 1..Len(g) |-> h[g[i]]]

\* the rows of grid g numbered in the order g first mentions them
RowNumber(g) ==
  [r \in {g[i] : i \in 1..Len(g)} |->
     Cardinality({g[j] : j \in 1..(CHOOSE i \in 1..Len(g) :
                                     g[i] = r /\ \A k \in 1..(i - 1) : g[k] # r)})]

\* once g is the page's only grid, the rows it does not reach are garbage;
\* references are opaque, so the surviving rows are renumbered
Collect(h, g) ==
  [heap |-> [n \in 1..Cardinality({g[i] : i \in 1..Len(g)}) |->
               h[CHOOSE r \in DOMAIN RowNumber(g) : RowNumber(g)[r] = n]],
   grid |-> [i \in 1..Len(g) |-> RowNumber(g)[g[i]]]]

\* ------------------------------------------------------------------------
\* part_000: the pure functions
\* ------------------------------------------------------------------------
\* a shallow copy: the rows of the copy are the rows of the argument
CopyGrid_shallow(h, g) == [heap |-> h, grid |-> g]

\* grid.map(arr => [...arr]) : a new row object per row, same cells
CopyGrid(h, g) ==
  LET RECURSIVE copy(_, _, _)
      copy(hh, i, acc) ==
        IF i > Len(g) THEN [heap |-> hh, grid |-> acc]
        ELSE LET a == AllocRow(hh, hh[g[i]])
             IN copy(a.heap, i + 1, Append(acc, a.ref))
  IN copy(h, 1, << >>)

\* countLiveNeighbors(grid, row, col): the bounds are the module's numRows and
\* numCols, not the argument's; grid[newRow] is undefined when newRow is past
\* the argument's last row, and indexing it throws a TypeError
countLiveNeighbors(h, g, row, col) ==
  LET RECURSIVE visit(_, _)
      visit(d, liveNeighbors) ==
        IF d > Len(directions) THEN [threw |-> FALSE, value |-> liveNeighbors]
        ELSE LET newRow == row + directions[d][1]
                 newCol == col + directions[d][2]
             IN IF newRow >= 0 /\ newRow < numRows /\ newCol >= 0 /\ newCol < numCols
                THEN IF newRow >= Len(g)
                     THEN [threw |-> TRUE, value |-> liveNeighbors]
                     ELSE IF Get(h[g[newRow + 1]], newCol) = 1
                          THEN visit(d + 1, liveNeighbors + 1)
                          ELSE visit(d + 1, liveNeighbors)
                ELSE visit(d + 1, liveNeighbors)
  IN visit(1, 0)

\* the rules applied to one cell: <<v>> when a branch writes v to
\* nextGrid[row][col], << >> when no branch writes
NextCell(cell, liveNeighbors) ==
  IF cell = 1
  THEN IF liveNeighbors < 2 \/ liveNeighbors > 3 THEN <<0>>
       ELSE IF liveNeighbors = 2 \/ liveNeighbors = 3 THEN <<1>>
       ELSE << >>
  ELSE IF liveNeighbors = 3 THEN <<1>> ELSE << >>

\* gameOfLife(grid): copy, then visit rows 0..numRows-1 and columns
\* 0..numCols-1 of the argument in row-major order, reading the argument and
\* writing the copy.  An exception ends the call with no return value.
gameOfLife(h, g) ==
  LET c == CopyGrid(h, g)
      nextGrid == c.grid
      RECURSIVE loop(_, _)
      loop(hh, k) ==
        IF k >= numRows * numCols
        THEN [threw |-> FALSE, heap |-> hh, grid |-> nextGrid]
        ELSE LET row == k \div numCols
                 col == k % numCols
                 n   == countLiveNeighbors(hh, g, row, col)
             IN IF n.threw \/ row >= Len(g)
                THEN [threw |-> TRUE, heap |-> hh, grid |-> << >>]
                ELSE LET w == NextCell(Get(hh[g[row + 1]], col), n.value)
                     IN IF w = << >> THEN loop(hh, k + 1)
                        ELSE loop([hh EXCEPT ![nextGrid[row + 1]] =
                                     SetIndex(hh[nextGrid[row + 1]], col, w[1])],
                                  k + 1)
  IN loop(c.heap, 0)

\* ------------------------------------------------------------------------
\* evaluate.js: the same logic over the page's global grid
\* ------------------------------------------------------------------------
\* countLiveNeighbors(row, col), reading the global grid g
ev_countLiveNeighbors(h, g, row, col) ==
  LET RECURSIVE visit(_, _)
      visit(d, liveNeighbors) ==
        IF d > Len(directions) THEN [threw |-> FALSE, value |-> liveNeighbors]
        ELSE LET newRow == row + directions[d][1]
                 newCol == col + directions[d][2]
             IN IF newRow >= 0 /\ newRow < numRows /\ newCol >= 0 /\ newCol < numCols
                THEN IF newRow >= Len(g)
                     THEN [threw |-> TRUE, value |-> liveNeighbors]
                     ELSE IF Get(h[g[newRow + 1]], newCol) = 1
                          THEN visit(d + 1, liveNeighbors + 1)
                          ELSE visit(d + 1, liveNeighbors)
                ELSE visit(d + 1, liveNeighbors)
  IN visit(1, 0)

\* a live cell dies only of underpopulation
ev_NextCell_noOverpopulation(cell, liveNeighbors) ==
  IF cell = 1
  THEN IF liveNeighbors < 2 THEN <<0>> ELSE << >>
  ELSE IF liveNeighbors = 3 THEN <<1>> ELSE << >>

\* the rules applied to one cell: survival writes nothing (the copy already
\* holds 1)
ev_NextCell(cell, liveNeighbors) ==
  IF cell = 1
  THEN IF liveNeighbors < 2 \/ liveNeighbors > 3 THEN <<0>> ELSE << >>
  ELSE IF liveNeighbors = 3 THEN <<1>> ELSE << >>

\* the body of computeNextGeneration() up to "grid = nextGrid"
ev_nextGrid(h, g) ==
  LET c == CopyGrid(h, g)
      nextGrid == c.grid
      RECURSIVE loop(_, _)
      loop(hh, k) ==
        IF k >= numRows * numCols
        THEN [threw |-> FALSE, heap |-> hh, grid |-> nextGrid]
        ELSE LET row == k \div numCols
                 col == k % numCols
                 n   == ev_countLiveNeighbors(hh, g, row, col)
             IN IF n.threw \/ row >= Len(g)
                THEN [threw |-> TRUE, heap |-> hh, grid |-> << >>]
                ELSE LET w == ev_NextCell(Get(hh[g[row + 1]], col), n.value)
                     IN IF w = << >> THEN loop(hh, k + 1)
                        ELSE loop([hh EXCEPT ![nextGrid[row + 1]] =
                                     SetIndex(hh[nextGrid[row + 1]], col, w[1])],
                                  k + 1)
  IN loop(c.heap, 0)

\* ------------------------------------------------------------------------
\* State
\* ------------------------------------------------------------------------
VARIABLES
  \* the page running part_000
  heap,           \* its row objects
  grid,           \* let grid: the current grid (row references)
  isRunning,      \* let isRunning
  intervalId,     \* let intervalId (0: undefined)
  activeTimers,   \* the ids of the page's scheduled interval timers
  timersCreated,  \* how many timers the page has created
  \* the page running evaluate.js
  ev_heap, ev_grid, ev_isRunning, ev_intervalId, ev_activeTimers, ev_timersCreated,
  \* the run so far
  lastEvent,      \* [kind, row, col, wasRunning]: the event handled last, and
                  \* isRunning when it arrived
  stopped,        \* a Pause or Reset click was handled and no Start click since
  clicks,         \* cell clicks handled
  gens,           \* Next clicks and timer ticks handled
  \* a direct call of a pure function of part_000
  fnHeap,         \* the heap of the call
  arg,            \* the grid passed (row references)
  argBefore,      \* the contents of arg before the call
  at,             \* <<row, col>> passed to countLiveNeighbors / written by the caller
  result,         \* [threw, grid, value]: what the call produced
  pc              \* "page", "start", "called", "written", "counted"

pageVars == <<heap, grid, isRunning, intervalId, activeTimers, timersCreated>>

ev_pageVars ==
  <<ev_heap, ev_grid, ev_isRunning, ev_intervalId, ev_activeTimers, ev_timersCreated>>

runVars == <<lastEvent, stopped, clicks, gens>>

fnVars == <<fnHeap, arg, argBefore, at, result, pc>>

vars == <<pageVars, ev_pageVars, runVars, fnVars>>

NoResult == [threw |-> FALSE, grid |-> << >>, value |-> 0]

\* the two pages right after their scripts ran, nothing clicked yet
PageLoaded ==
  LET a == AllocGrid(<< >>, initialGrid, << >>)
  IN /\ heap = a.heap /\ grid = a.grid
     /\ isRunning = FALSE /\ intervalId = 0
     /\ activeTimers = {} /\ timersCreated = 0
     /\ ev_heap = a.heap /\ ev_grid = a.grid
     /\ ev_isRunning = FALSE /\ ev_intervalId = 0
     /\ ev_activeTimers = {} /\ ev_timersCreated = 0
     /\ lastEvent = [kind |-> "load", row |-> 0, col |-> 0, wasRunning |-> FALSE]
     /\ stopped = FALSE /\ clicks = 0 /\ gens = 0

\* no direct call is in progress
NoCall ==
  /\ fnHeap = << >> /\ arg = << >> /\ argBefore = << >>
  /\ at = <<0, 0>> /\ result = NoResult

\* ------------------------------------------------------------------------
\* The browser's timers
\* ------------------------------------------------------------------------
\* setInterval(callback, 500): the browser numbers a page's timers 1, 2, 3, ...
setInterval(created) == created + 1

\* clearInterval that cancels nothing
clearInterval_noop(timers, id) == timers

\* clearInterval(id): the timer id is no longer scheduled (no-op for an id
\* that is not scheduled, undefined included)
clearInterval(timers, id) == timers \ {id}

\* ------------------------------------------------------------------------
\* part_000: the event handlers
\* ------------------------------------------------------------------------
\* a handler that sets the clicked cell alive
Toggle_setAlive(cell) == 1

\* grid[row][col] === 1 ? 0 : 1
Toggle(cell) == IF cell = 1 THEN 0 ELSE 1

\* the click listener of cell (row, col): toggles the global grid in place
cellClick(row, col) ==
  /\ heap' = [heap EXCEPT ![grid[row + 1]] = SetIndex(@, col, Toggle(Get(@, col)))]
  /\ UNCHANGED <<grid, isRunning, intervalId, activeTimers, timersCreated>>

\* computeNextGeneration(): grid = gameOfLife(grid); an exception leaves grid
\* as it was
computeNextGeneration ==
  /\ \E r \in {gameOfLife(heap, grid)} :
       \E c \in {Collect(r.heap, IF r.threw THEN grid ELSE r.grid)} :
         /\ grid' = c.grid
         /\ heap' = c.heap
  /\ UNCHANGED <<isRunning, intervalId, activeTimers, timersCreated>>

\* a Start handler without the isRunning test
startClick_noGuard ==
  /\ isRunning' = TRUE
  /\ intervalId' = setInterval(timersCreated)
  /\ activeTimers' = activeTimers \cup {setInterval(timersCreated)}
  /\ timersCreated' = timersCreated + 1
  /\ UNCHANGED <<heap, grid>>

\* the Start listener
startClick ==
  IF ~isRunning
  THEN /\ isRunning' = TRUE
       /\ intervalId' = setInterval(timersCreated)
       /\ activeTimers' = activeTimers \cup {setInterval(timersCreated)}
       /\ timersCreated' = timersCreated + 1
       /\ UNCHANGED <<heap, grid>>
  ELSE UNCHANGED pageVars

\* the Pause listener
pauseClick ==
  /\ isRunning' = FALSE
  /\ activeTimers' = clearInterval(activeTimers, intervalId)
  /\ UNCHANGED <<heap, grid, intervalId, timersCreated>>

\* a Reset that keeps the rows of the current grid
resetGrid_keep(h, g) == [heap |-> h, grid |-> g]

\* grid = [[0,1,0,0,1], ...]: a new array of new rows
resetGrid(h, g) == AllocGrid(h, initialGrid, << >>)

\* the Reset listener
resetClick ==
  /\ isRunning' = FALSE
  /\ activeTimers' = clearInterval(activeTimers, intervalId)
  /\ \E a \in {resetGrid(heap, grid)} :
       \E c \in {Collect(a.heap, a.grid)} :
         /\ grid' = c.grid
         /\ heap' = c.heap
  /\ UNCHANGED <<intervalId, timersCreated>>

\* ------------------------------------------------------------------------
\* evaluate.js: the event handlers
\* ------------------------------------------------------------------------
ev_cellClick(row, col) ==
  /\ ev_heap' = [ev_heap EXCEPT ![ev_grid[row + 1]] =
                   SetIndex(@, col, IF Get(@, col) = 1 THEN 0 ELSE 1)]
  /\ UNCHANGED <<ev_grid, ev_isRunning, ev_intervalId, ev_activeTimers, ev_timersCreated>>

ev_computeNextGeneration ==
  /\ \E r \in {ev_nextGrid(ev_heap, ev_grid)} :
       \E c \in {Collect(r.heap, IF r.threw THEN ev_grid ELSE r.grid)} :
         /\ ev_grid' = c.grid
         /\ ev_heap' = c.heap
  /\ UNCHANGED <<ev_isRunning, ev_intervalId, ev_activeTimers, ev_timersCreated>>

ev_startClick ==
  IF ~ev_isRunning
  THEN /\ ev_isRunning' = TRUE
       /\ ev_intervalId' = setInterval(ev_timersCreated)
       /\ ev_activeTimers' = ev_activeTimers \cup {setInterval(ev_timersCreated)}
       /\ ev_timersCreated' = ev_timersCreated + 1
       /\ UNCHANGED <<ev_heap, ev_grid>>
  ELSE UNCHANGED ev_pageVars

ev_pauseClick ==
  /\ ev_isRunning' = FALSE
  /\ ev_activeTimers' = clearInterval(ev_activeTimers, ev_intervalId)
  /\ UNCHANGED <<ev_heap, ev_grid, ev_intervalId, ev_timersCreated>>

ev_resetClick ==
  /\ ev_isRunning' = FALSE
  /\ ev_activeTimers' = clearInterval(ev_activeTimers, ev_intervalId)
  /\ \E a \in {AllocGrid(ev_heap, initialGrid, << >>)} :
       \E c \in {Collect(a.heap, a.grid)} :
         /\ ev_grid' = c.grid
         /\ ev_heap' = c.heap
  /\ UNCHANGED <<ev_intervalId, ev_timersCreated>>

\* ------------------------------------------------------------------------
\* The events, delivered to both pages
\* ------------------------------------------------------------------------
Event(kind, row, col) ==
  [kind |-> kind, row |-> row, col |-> col, wasRunning |-> isRunning]

\* a click on the displayed cell (row, col); createGridDisplay gives every
\* cell of rows 0..numRows-1, columns 0..numCols-1 a listener
CellClick(row, col) ==
  /\ clicks < MaxClicks
  /\ row * numCols + col < MaxClickCells
  /\ cellClick(row, col) /\ ev_cellClick(row, col)
  /\ lastEvent' = Event("cell", row, col)
  /\ clicks' = clicks + 1
  /\ UNCHANGED <<stopped, gens, fnVars>>

NextClick ==
  /\ gens < MaxGens
  /\ computeNextGeneration /\ ev_computeNextGeneration
  /\ lastEvent' = Event("next", 0, 0)
  /\ gens' = gens + 1
  /\ UNCHANGED <<stopped, clicks, fnVars>>

StartClick ==
  /\ timersCreated < MaxTimers /\ ev_timersCreated < MaxTimers
  /\ startClick /\ ev_startClick
  /\ lastEvent' = Event("start", 0, 0)
  /\ stopped' = FALSE
  /\ UNCHANGED <<clicks, gens, fnVars>>

PauseClick ==
  /\ pauseClick /\ ev_pauseClick
  /\ lastEvent' = Event("pause", 0, 0)
  /\ stopped' = TRUE
  /\ UNCHANGED <<clicks, gens, fnVars>>

ResetClick ==
  /\ resetClick /\ ev_resetClick
  /\ lastEvent' = Event("reset", 0, 0)
  /\ stopped' = TRUE
  /\ UNCHANGED <<clicks, gens, fnVars>>

\* 500 ms passed: a page that has a scheduled interval timer runs the
\* timer's callback, computeNextGeneration (a cleared timer never fires)
TimerTick ==
  /\ gens < MaxGens
  /\ activeTimers # {} \/ ev_activeTimers # {}
  /\ IF activeTimers # {} THEN computeNextGeneration ELSE UNCHANGED pageVars
  /\ IF ev_activeTimers # {} THEN ev_computeNextGeneration ELSE UNCHANGED ev_pageVars
  /\ lastEvent' = Event("tick", 0, 0)
  /\ gens' = gens + 1
  /\ UNCHANGED <<stopped, clicks, fnVars>>

Init == PageLoaded /\ NoCall /\ pc = "page"

Next ==
  \/ \E row \in 0..(numRows - 1), col \in 0..(numCols - 1) : CellClick(row, col)
  \/ NextClick
  \/ StartClick
  \/ PauseClick
  \/ ResetClick
  \/ TimerTick

Spec == Init /\ [][Next]_vars

\* ------------------------------------------------------------------------
\* Direct calls of the pure functions of part_000 on bounded inputs
\* ------------------------------------------------------------------------
\* the README's example grid
Blinker == << <<0, 1, 0>>, <<0, 1, 0>>, <<0, 1, 0>> >>

\* the README's expected next state of the example
BlinkerNext == << <<0, 0, 0>>, <<1, 1, 1>>, <<0, 0, 0>> >>

\* the subsets of 1..n with at most k elements
RECURSIVE SubsetsUpTo(_, _)
SubsetsUpTo(n, k) ==
  IF n = 0 \/ k = 0 THEN {{}}
  ELSE SubsetsUpTo(n - 1, k) \cup {s \cup {n} : s \in SubsetsUpTo(n - 1, k - 1)}

\* the R x C grid whose live cells are those numbered in live (row-major)
MakeGrid(R, C, live) ==
  [i \in 1..R |-> [j \in 1..C |-> IF ((i - 1) * C + j) \in live THEN 1 ELSE 0]]

\* the documented grids: the README's example and the page's initial grid
ExampleGrids == {Blinker, initialGrid}

\* rows is one of the rectangular 0/1 grids the functions are called on
IsInput(rows) ==
  \/ rows \in ExampleGrids
  \/ \E R \in 1..MaxRows, C \in 1..MaxCols :
       \E live \in SubsetsUpTo(R * C, MaxLive) : rows = MakeGrid(R, C, live)

\* a caller holding one grid, about to call
InitCall ==
  /\ PageLoaded
  /\ IsInput(argBefore)
  /\ \E a \in {AllocGrid(<< >>, argBefore, << >>)} :
       /\ fnHeap = a.heap
       /\ arg = a.grid
  /\ at = <<0, 0>>
  /\ result = NoResult
  /\ pc = "start"

\* const next = gameOfLife(arg)
CallGameOfLife ==
  /\ pc = "start"
  /\ \E r \in {gameOfLife(fnHeap, arg)} :
       /\ fnHeap' = r.heap
       /\ result' = [threw |-> r.threw, grid |-> r.grid, value |-> 0]
  /\ pc' = "called"
  /\ UNCHANGED <<arg, argBefore, at, pageVars, ev_pageVars, runVars>>

\* a later write by the caller to the returned grid: next[row][col] = the
\* other value
WriteReturned(row, col) ==
  /\ pc = "called"
  /\ ~result.threw
  /\ row < Len(result.grid)
  /\ col < Len(fnHeap[result.grid[row + 1]])
  /\ fnHeap' = [fnHeap EXCEPT ![result.grid[row + 1]] =
                  SetIndex(@, col, Toggle(Get(@, col)))]
  /\ pc' = "written"
  /\ at' = <<row, col>>
  /\ UNCHANGED <<arg, argBefore, result, pageVars, ev_pageVars, runVars>>

NextGol ==
  \/ CallGameOfLife
  \/ \E row \in 0..(MaxRows - 1) : WriteReturned(row, 0)

SpecGol == InitCall /\ [][NextGol]_vars

\* const n = countLiveNeighbors(arg, row, col), (row, col) inside arg
CallCountLiveNeighbors(row, col) ==
  /\ pc = "start"
  /\ row < Len(arg)
  /\ col < Len(fnHeap[arg[row + 1]])
  /\ \E r \in {countLiveNeighbors(fnHeap, arg, row, col)} :
       result' = [threw |-> r.threw, grid |-> << >>, value |-> r.value]
  /\ at' = <<row, col>>
  /\ pc' = "counted"
  /\ UNCHANGED <<fnHeap, arg, argBefore, pageVars, ev_pageVars, runVars>>

NextCount ==
  \E row \in 0..(MaxRows - 1), col \in 0..(MaxCols - 1) : CallCountLiveNeighbors(row, col)

SpecCount == InitCall /\ [][NextCount]_vars

\* ------------------------------------------------------------------------
\* The rules as the README states them, on grid contents
\* ------------------------------------------------------------------------
\* the live cells among the neighbours of (row, col) that lie inside rows
LiveNeighbours(rows, row, col) ==
  Cardinality({n \in ((row - 1)..(row + 1)) \X ((col - 1)..(col + 1)) :
                 /\ n # <<row, col>>
                 /\ n[1] >= 0 /\ n[1] < Len(rows)
                 /\ n[2] >= 0 /\ n[2] < Len(rows[n[1] + 1])
                 /\ rows[n[1] + 1][n[2] + 1] = 1})

\* cell (row, col) of rows is alive in the next generation
AliveNext(rows, row, col) ==
  \/ rows[row + 1][col + 1] = 1 /\ LiveNeighbours(rows, row, col) \in {2, 3}
  \/ rows[row + 1][col + 1] = 0 /\ LiveNeighbours(rows, row, col) = 3

\* the grid a direct call returned
Returned == GridValue(fnHeap, result.grid)

\* the row objects of a grid
RowsOf(g) == {g[i] : i \in 1..Len(g)}

\* C1: for every rectangular 0/1 grid passed to gameOfLife, every returned cell
\* is alive exactly when the rules, applied to the old grid's in-bounds
\* neighbours, say so
C1_RulesOnOldGrid ==
  pc = "called" =>
    /\ ~result.threw
    /\ Len(Returned) = Len(argBefore)
    /\ \A i \in 1..Len(argBefore) :
         /\ Len(Returned[i]) >= Len(argBefore[i])
         /\ \A j \in 1..Len(argBefore[i]) :
              (Returned[i][j] = 1) <=> AliveNext(argBefore, i - 1, j - 1)

\* C2: gameOfLife on the README's 3x3 blinker returns the README's next state
C2_BlinkerExample ==
  (pc = "called" /\ argBefore = Blinker) =>
    (~result.threw /\ Returned = BlinkerNext)

\* C3: the grid gameOfLife returns has as many rows as its argument and every
\* returned row has as many cells as the argument's rows
C3_SameDimensions ==
  pc = "called" =>
    /\ ~result.threw
    /\ Len(Returned) = Len(argBefore)
    /\ \A i \in 1..Len(Returned) : Len(Returned[i]) = Len(argBefore[1])

\* C4: gameOfLife leaves every cell of its argument as it was, and the grid it
\* returns shares no row with the argument, so a later write to the returned
\* grid does not reach the argument
C4_InputNotMutated ==
  pc \in {"called", "written"} =>
    /\ GridValue(fnHeap, arg) = argBefore
    /\ ~result.threw => RowsOf(result.grid) \cap RowsOf(arg) = {}

\* gameOfLife returned a grid that differs from its argument in one row and
\* the caller then wrote into another row of it
C4_Witness ==
  /\ pc = "written"
  /\ \E i \in 1..Len(argBefore) :
       /\ i # at[1] + 1
       /\ Returned[i] # argBefore[i]

\* C5: countLiveNeighbors(grid, row, col) never throws for an in-bounds cell of
\* a rectangular grid and returns the number of live cells among the
\* neighbours that lie inside the passed grid (so at most 8, and at most 3 in
\* a corner)
C5_CountsInBoundsNeighbours ==
  pc = "counted" =>
    /\ ~result.threw
    /\ result.value = LiveNeighbours(argBefore, at[1], at[2])

\* ------------------------------------------------------------------------
\* The two pages under the same events
\* ------------------------------------------------------------------------
\* the contents of the current grid of each page
Cells == GridValue(heap, grid)

ev_Cells == GridValue(ev_heap, ev_grid)

\* C6: after every event the two pages hold the same grid contents and the
\* same isRunning
C6_SameImplementation ==
  /\ Cells = ev_Cells
  /\ isRunning = ev_isRunning

\* both pages stepped by timer after a click and the grid is no longer the
\* initial one
C6_Witness ==
  /\ lastEvent.kind = "tick"
  /\ clicks >= 1 /\ gens >= 2
  /\ Cells # initialGrid

\* C7: between a Pause or Reset click and the next Start click no timer tick
\* changes the grid of either page
C7_NoTickAfterStop ==
  [][(stopped /\ lastEvent'.kind = "tick" /\ gens' = gens + 1) =>
       (Cells' = Cells /\ ev_Cells' = ev_Cells)]_vars

\* a timer was started and stopped, and the grid then changed by a Next click
C7_Witness ==
  /\ stopped
  /\ timersCreated >= 1
  /\ lastEvent.kind = "next"
  /\ gens >= 2

\* C8: right after a Reset click the grid is the initial configuration and
\* isRunning is false, on both pages
C8_ResetRestoresInitial ==
  lastEvent.kind = "reset" =>
    /\ Cells = initialGrid /\ ~isRunning
    /\ ev_Cells = initialGrid /\ ~ev_isRunning

\* a Reset click while the timer ran, after a cell was toggled and
\* generations passed
C8_Witness ==
  /\ lastEvent.kind = "reset" /\ lastEvent.wasRunning
  /\ clicks >= 1 /\ gens >= 1

\* C9: a click on cell (r, c) flips cell (r, c) of the current grid and
\* changes no other cell, nor which rows the grid is made of, nor isRunning,
\* nor the timer
C9_ClickFlipsOneCell ==
  [][clicks' = clicks + 1 =>
       LET r == lastEvent'.row + 1
           c == lastEvent'.col + 1
       IN /\ Cells[r][c] \in {0, 1}
          /\ Cells' = [Cells EXCEPT ![r][c] = 1 - @]
          /\ ev_Cells' = [ev_Cells EXCEPT ![r][c] = 1 - @]
          /\ grid' = grid /\ ev_grid' = ev_grid
          /\ UNCHANGED <<isRunning, intervalId, activeTimers>>
          /\ UNCHANGED <<ev_isRunning, ev_intervalId, ev_activeTimers>>]_vars

\* a cell was clicked while the timer ran, after a generation step
C9_Witness ==
  /\ lastEvent.kind = "cell" /\ lastEvent.wasRunning
  /\ gens >= 1

\* C10: each page has at most one scheduled interval timer, and isRunning is
\* true exactly when it has one
C10_OneTimer ==
  /\ Cardinality(activeTimers) <= 1
  /\ isRunning <=> activeTimers # {}
  /\ Cardinality(ev_activeTimers) <= 1
  /\ ev_isRunning <=> ev_activeTimers # {}

\* a Start click arrived while the simulation ran
C10_Witness ==
  /\ lastEvent.kind = "start" /\ lastEvent.wasRunning
  /\ isRunning

====
